---- MODULE Spec2Model ----
(***************************************************************************)
(* Model of consensus/message.go of BDLS: the fixed-width public-key axis  *)
(* codec (PubKeyAxis), the coordinate helpers, the domain-separated digest *)
(* (SignedProto.Hash) and SignedProto.Sign / SignedProto.Verify.           *)
(*                                                                         *)
(* Bytes are naturals; a byte string is a sequence of bytes.  A big.Int is *)
(* represented by its minimal big-endian byte string (no leading zero), so *)
(* big.Int.Bytes is the representation itself and big.Int.SetBytes strips  *)
(* leading zeros.  blake2b and ECDSA are external libraries: they are      *)
(* modelled by their ideal contracts (an injective digest, a signature     *)
(* that verifies only for the key, digest and nonce that produced it).     *)
(***************************************************************************)
EXTENDS Integers, Sequences, FiniteSets, TLC

VARIABLES
    sp,      \* the SignedProto envelope: Version, X, Y, Message, R, S
    prov,    \* provenance of sp: "fresh", "signed", "tampered", "other"
    sq,      \* a second envelope, used to compare digests of two envelopes
    hashes,  \* what the last Hash call on sp and on sq fed to and got from blake2b
    axis,    \* a standalone PubKeyAxis value
    last,    \* the last call: its operation, inputs, results, outcome
    json     \* the call stack of a MarshalJSON / UnmarshalJSON call

vars == <<sp, prov, sq, hashes, axis, last, json>>

-----------------------------------------------------------------------------
(* Bounds of the model *)

\* bytes range over 0..MaxByte
MaxByte == 1
\* payloads are byte strings of length 0..MaxMsgLen
MaxMsgLen == 1
\* byte strings handed to Unmarshal are up to SizeAxis + MaxOver long
MaxOver == 1
\* frames the runtime's stack holds before it aborts with a stack overflow
MaxStack == 6

-----------------------------------------------------------------------------
(* Constants of the program *)

SizeAxis == 32

\* "==BDLS CONSENSUS MESSAGE==" as ASCII
SignaturePrefix ==
    <<61, 61, 66, 68, 76, 83, 32, 67, 79, 78, 83, 69, 78, 83, 85, 83, 32,
      77, 69, 83, 83, 65, 71, 69, 61, 61>>

ProtocolVersion == 1

defaultCurve == "S256"

ErrPubKey == "incorrect pubkey format"

-----------------------------------------------------------------------------
(* Byte strings *)

Fill(n, b) == [i \in 1..n |-> b]

\* Go's copy(dst[off:], src): min(len(dst) - off, len(src)) bytes are copied
CopyAt(dst, off, src) ==
    [i \in 1..Len(dst) |->
        IF i > off /\ i - off <= Len(src) THEN src[i - off] ELSE dst[i]]

\* big.Int.SetBytes: the value of a big-endian byte string (leading zeros dropped)
SetBytes(b) ==
    LET nz == {i \in 1..Len(b) : b[i] # 0}
    IN  IF nz = {} THEN <<>>
        ELSE SubSeq(b, CHOOSE i \in nz : \A j \in nz : i <= j, Len(b))

\* big.Int.Bytes: the minimal big-endian byte string of a value
Bytes(x) == x

\* binary.Write(hash, binary.LittleEndian, uint32): four bytes, low byte first
LittleEndian32(n) ==
    <<n % 256, (n \div 256) % 256, (n \div 65536) % 256, (n \div 16777216) % 256>>

-----------------------------------------------------------------------------
(* PubKeyAxis *)

\* the zero value of PubKeyAxis ([SizeAxis]byte)
ZeroAxis == Fill(SizeAxis, 0)

\* PubKeyAxis.Marshal: the stored bytes, verbatim
Marshal(t) == [out |-> t, err |-> "nil"]

\* Unmarshal, were it to keep the first 32 bytes of data that is too long
Unmarshal_Truncates(t, data) ==
    IF Len(data) > 32
    THEN [t |-> SubSeq(data, 1, 32), err |-> ErrPubKey]
    ELSE [t |-> CopyAt(t, 32 - Len(data), data), err |-> "nil"]

\* PubKeyAxis.Unmarshal: data longer than 32 bytes is refused; shorter data is
\* copied to the tail of the array, the bytes before it are left as they are
Unmarshal(t, data) ==
    IF Len(data) > 32
    THEN [t |-> t, err |-> ErrPubKey]
    ELSE [t |-> CopyAt(t, 32 - Len(data), data), err |-> "nil"]

\* the byte strings handed to Unmarshal: a first byte a, then b repeated
AxisLens == {1, 2, SizeAxis - 1, SizeAxis} \cup (SizeAxis + 1 .. SizeAxis + MaxOver)

AxisInputs ==
    {<<>>} \cup
    {<<a>> \o Fill(n - 1, b) : <<n, a, b>> \in AxisLens \X (0..MaxByte) \X (0..MaxByte)}

\* b left-padded with zero bytes to SizeAxis bytes
LeftPad(b) == Fill(SizeAxis - Len(b), 0) \o b

-----------------------------------------------------------------------------
(* SignedProto: the envelope *)

\* the zero value of the SignedProto struct
ZeroSignedProto ==
    [Version |-> 0, X |-> ZeroAxis, Y |-> ZeroAxis,
     Message |-> <<>>, R |-> <<>>, S |-> <<>>]

\* proto.Marshal(m): the payload object is identified with its wire bytes
ProtoMarshal(m) == m

\* the payloads handed to Sign
Payloads == {Fill(n, 104) : n \in 0..MaxMsgLen}

\* the values a uint32 Version field takes in the model
Versions == {0, ProtocolVersion, ProtocolVersion + 256}

\* Key pairs (ecdsa.PrivateKey).  D stands for the private scalar; the public
\* X and Y are big.Ints whose byte lengths are given by the shape: full
\* width, short X and Y (leading zero bytes in the padded form), X too long,
\* Y too long, and a key of another curve.
KeyShapes ==
    << [Curve |-> "S256", xlen |-> SizeAxis,     ylen |-> SizeAxis],
       [Curve |-> "S256", xlen |-> SizeAxis - 1, ylen |-> SizeAxis - 2],
       [Curve |-> "S256", xlen |-> SizeAxis + 1, ylen |-> SizeAxis],
       [Curve |-> "S256", xlen |-> SizeAxis,     ylen |-> SizeAxis + 1],
       [Curve |-> "P256", xlen |-> SizeAxis,     ylen |-> SizeAxis] >>

PrivateKey(i) ==
    [D |-> i,
     PublicKey |-> [Curve |-> KeyShapes[i].Curve,
                    X |-> Fill(KeyShapes[i].xlen, i),
                    Y |-> Fill(KeyShapes[i].ylen, i + 16)]]

PrivateKeys == {PrivateKey(i) : i \in 1..Len(KeyShapes)}

\* the nonces rand.Reader can hand to ecdsa.Sign
Nonces == {1, 2}

\* blake2b.New256(nil) over the bytes written: an ideal hash, whose digest
\* determines its input
Blake2b256(data) == data

\* ecdsa.Sign(rand.Reader, priv, hash) with the nonce n drawn from rand.Reader:
\* r depends on the nonce, s on the key, the nonce and the digest
EcdsaSign(priv, hash, n) == [r |-> <<n>>, s |-> <<priv.D, n>> \o hash]

\* ecdsa.Verify(pub, hash, r, s): r and s are non-zero and (r, s) is what
\* the holder of pub's private key (on pub's curve) signs hash with
EcdsaVerify(pub, hash, r, s) ==
    /\ r # <<>>
    /\ s # <<>>
    /\ \E k \in PrivateKeys, n \in Nonces :
          /\ k.PublicKey = pub
          /\ EcdsaSign(k, hash, n) = [r |-> r, s |-> s]

\* HashInput, were the version written as one byte
HashInput_NarrowVersion(e) ==
    SignaturePrefix
        \o <<e.Version % 256>>
        \o e.X
        \o e.Y
        \o LittleEndian32(Len(e.Message))
        \o e.Message

\* HashInput, were the payload left out
HashInput_OmitsMessage(e) ==
    SignaturePrefix
        \o LittleEndian32(e.Version)
        \o e.X
        \o e.Y
        \o LittleEndian32(Len(e.Message))

\* HashInput, were the signature scalar R written too
HashInput_CoversSignature(e) ==
    SignaturePrefix
        \o LittleEndian32(e.Version)
        \o e.X
        \o e.Y
        \o LittleEndian32(Len(e.Message))
        \o e.Message
        \o e.R

\* what SignedProto.Hash writes to the hash, in order
HashInput(e) ==
    SignaturePrefix
        \o LittleEndian32(e.Version)
        \o e.X
        \o e.Y
        \o LittleEndian32(Len(e.Message))
        \o e.Message

\* SignedProto.Hash
Hash(e) == Blake2b256(HashInput(e))

\* Sign, were the error of Y.Unmarshal not checked
Sign_IgnoresYError(e, m, priv, n) ==
    LET e1 == [e EXCEPT !.Version = ProtocolVersion, !.Message = ProtoMarshal(m)]
        ux == Unmarshal(e1.X, Bytes(priv.PublicKey.X))
        e2 == [e1 EXCEPT !.X = ux.t]
        uy == Unmarshal(e2.Y, Bytes(priv.PublicKey.Y))
        e3 == [e2 EXCEPT !.Y = uy.t]
        sig == EcdsaSign(priv, Hash(e3), n)
    IN  IF ux.err # "nil" THEN [sp |-> e1, outcome |-> "panic"]
        ELSE [sp |-> [e3 EXCEPT !.R = Bytes(sig.r), !.S = Bytes(sig.s)],
              outcome |-> "returned"]

\* SignedProto.Sign(m, privateKey), n the nonce: the envelope it leaves and
\* whether it returned or panicked
Sign(e, m, priv, n) ==
    LET e1 == [e EXCEPT !.Version = ProtocolVersion, !.Message = ProtoMarshal(m)]
        ux == Unmarshal(e1.X, Bytes(priv.PublicKey.X))
        e2 == [e1 EXCEPT !.X = ux.t]
        uy == Unmarshal(e2.Y, Bytes(priv.PublicKey.Y))
        e3 == [e2 EXCEPT !.Y = uy.t]
        sig == EcdsaSign(priv, Hash(e3), n)
    IN  IF ux.err # "nil" THEN [sp |-> e1, outcome |-> "panic"]
        ELSE IF uy.err # "nil" THEN [sp |-> e2, outcome |-> "panic"]
        ELSE [sp |-> [e3 EXCEPT !.R = Bytes(sig.r), !.S = Bytes(sig.s)],
              outcome |-> "returned"]

\* Verify, were a point that is no key's point refused with a panic
Verify_PanicsOffCurve(e) ==
    LET hash == Hash(e)
        pubkey == [Curve |-> defaultCurve, X |-> SetBytes(e.X), Y |-> SetBytes(e.Y)]
    IN  IF \A k \in PrivateKeys : k.PublicKey # pubkey
        THEN [ret |-> FALSE, outcome |-> "panic"]
        ELSE [ret |-> EcdsaVerify(pubkey, hash, SetBytes(e.R), SetBytes(e.S)),
              outcome |-> "returned"]

\* SignedProto.Verify: what it returns, and whether it returned or panicked
Verify(e) ==
    LET hash == Hash(e)
        pubkey == [Curve |-> defaultCurve, X |-> SetBytes(e.X), Y |-> SetBytes(e.Y)]
    IN  [ret |-> EcdsaVerify(pubkey, hash, SetBytes(e.R), SetBytes(e.S)),
         outcome |-> "returned"]

\* newCoordFromPubKey: the coordinate, or a panic
newCoordFromPubKey(pubkey) ==
    LET ux == Unmarshal(ZeroAxis, Bytes(pubkey.X))
        uy == Unmarshal(ZeroAxis, Bytes(pubkey.Y))
        r0 == Fill(2 * SizeAxis, 0)
    IN  IF ux.err # "nil" \/ uy.err # "nil"
        THEN [ret |-> <<>>, outcome |-> "panic"]
        ELSE [ret |-> CopyAt(CopyAt(r0, 0, ux.t), SizeAxis, uy.t),
              outcome |-> "returned"]

\* coordinate.Equal
Equal(c, x1, y1) ==
    x1 = SubSeq(c, 1, SizeAxis) /\ y1 = SubSeq(c, SizeAxis + 1, 2 * SizeAxis)

\* SignedProto.Coordiante
Coordiante(e) == CopyAt(CopyAt(Fill(2 * SizeAxis, 0), 0, e.X), SizeAxis, e.Y)

NoCall == [op |-> "none"]

NoHashes == [a |-> <<>>, b |-> <<>>]

NoJSON == [pc |-> "idle", fn |-> "none", depth |-> 0, data |-> "none"]

Init ==
    /\ sp = ZeroSignedProto
    /\ prov = "fresh"
    /\ sq = ZeroSignedProto
    /\ hashes = NoHashes
    /\ axis = ZeroAxis
    /\ last = NoCall
    /\ json = NoJSON

-----------------------------------------------------------------------------
(* Operations on a standalone axis *)

\* var t PubKeyAxis
NewAxis ==
    /\ axis' = ZeroAxis
    /\ last' = [op |-> "NewAxis"]
    /\ UNCHANGED <<sp, prov, sq, hashes, json>>

\* err := t.Unmarshal(data)
UnmarshalCall(data) ==
    LET r == Unmarshal(axis, data)
    IN  /\ axis' = r.t
        /\ last' = [op |-> "Unmarshal", data |-> data, err |-> r.err,
                    before |-> axis, outcome |-> "returned"]
        /\ UNCHANGED <<sp, prov, sq, hashes, json>>

\* out, err := t.Marshal(); decoded holds the data of the Unmarshal that
\* came right before, if one did and it succeeded
MarshalCall ==
    LET r == Marshal(axis)
    IN  /\ last' = [op |-> "Marshal", out |-> r.out, err |-> r.err,
                    decoded |-> IF last.op = "Unmarshal" /\ last.err = "nil"
                                THEN <<last.data>> ELSE <<>>,
                    outcome |-> "returned"]
        /\ UNCHANGED <<sp, prov, sq, hashes, axis, json>>

NextAxis ==
    \/ NewAxis
    \/ \E data \in AxisInputs : UnmarshalCall(data)
    \/ MarshalCall

SpecAxis == Init /\ [][NextAxis]_vars

-----------------------------------------------------------------------------
(* Operations on the envelope *)

Fits(pubkey) == Len(Bytes(pubkey.X)) <= SizeAxis /\ Len(Bytes(pubkey.Y)) <= SizeAxis

\* sp := new(SignedProto)
NewEnvelope ==
    /\ sp' = ZeroSignedProto
    /\ prov' = "fresh"
    /\ last' = [op |-> "NewEnvelope"]
    /\ UNCHANGED <<sq, hashes, axis, json>>

\* sp.Sign(m, key); sigKept tells whether R and S are what they were before
SignCall(m, key, n) ==
    LET r == Sign(sp, m, key, n)
    IN  /\ sp' = r.sp
        /\ prov' = IF r.outcome = "returned" THEN "signed" ELSE "other"
        /\ last' = [op |-> "Sign", m |-> m, key |-> key, outcome |-> r.outcome,
                    sigKept |-> (r.sp.R = sp.R /\ r.sp.S = sp.S)]
        /\ UNCHANGED <<sq, hashes, axis, json>>

\* ok := sp.Verify(); prev is the call that came right before, when it was a
\* Sign or an overwrite of a field
VerifyCall ==
    LET r == Verify(sp)
    IN  /\ last' = [op |-> "Verify", ret |-> r.ret, outcome |-> r.outcome,
                    before |-> sp,
                    prev |-> IF last.op \in {"Sign", "Set"} THEN last ELSE NoCall]
        /\ UNCHANGED <<sp, prov, sq, hashes, axis, json>>

\* the values one field of a signed envelope is overwritten with
TamperAxis(a) ==
    {ZeroAxis, [a EXCEPT ![SizeAxis] = IF @ % 2 = 0 THEN @ + 1 ELSE @ - 1]}

TamperValues(f) ==
    CASE f = "Version" -> Versions
      [] f = "X" -> TamperAxis(sp.X)
                    \cup {LeftPad(k.PublicKey.X) : k \in {q \in PrivateKeys : Fits(q.PublicKey)}}
      [] f = "Y" -> TamperAxis(sp.Y)
                    \cup {LeftPad(k.PublicKey.Y) : k \in {q \in PrivateKeys : Fits(q.PublicKey)}}
      [] f = "Message" ->
            Payloads \cup {sp.Message \o <<0>>}
                \cup {[sp.Message EXCEPT ![i] = 105] : i \in 1..Len(sp.Message)}

\* sp.<f> = v on an envelope Sign produced, R and S kept; wasValid tells
\* whether the envelope verified before the overwrite
SetField(f, v) ==
    /\ prov = "signed"
    /\ v # sp[f]
    /\ sp' = [sp EXCEPT ![f] = v]
    /\ prov' = "tampered"
    /\ last' = [op |-> "Set", field |-> f, wasValid |-> Verify(sp).ret]
    /\ UNCHANGED <<sq, hashes, axis, json>>

\* envelopes decoded from the network: any version, a point that is the
\* zero point, a key's point or no key's point, any payload, and signature
\* scalars that are empty, zero, a signature of these fields in R with a
\* leading zero byte, a signature of these fields, or one of other fields
UntrustedPoints ==
    LET k1 == PrivateKey(1).PublicKey
        k2 == PrivateKey(2).PublicKey
    IN  {<<ZeroAxis, ZeroAxis>>,
         <<LeftPad(k1.X), LeftPad(k1.Y)>>,
         <<LeftPad(k1.X), LeftPad(k2.Y)>>}

UntrustedSigs(e) ==
    LET good == EcdsaSign(PrivateKey(1), Hash(e), 1)
        old == EcdsaSign(PrivateKey(1), Hash(ZeroSignedProto), 1)
    IN  {[r |-> <<>>, s |-> <<>>],
         [r |-> <<0>>, s |-> <<0, 0>>],
         [r |-> <<0>> \o good.r, s |-> good.s],
         good,
         old}

Untrusted ==
    UNION {
        LET e == [Version |-> v, X |-> xy[1], Y |-> xy[2], Message |-> m,
                  R |-> <<>>, S |-> <<>>]
        IN  {[e EXCEPT !.R = g.r, !.S = g.s] : g \in UntrustedSigs(e)}
        : <<v, xy, m>> \in Versions \X UntrustedPoints \X Payloads}

\* sp := new(SignedProto); proto.Unmarshal(bytes, sp) of a received envelope
Receive(e) ==
    /\ prov = "fresh"
    /\ sp' = e
    /\ prov' = "other"
    /\ last' = [op |-> "Receive"]
    /\ UNCHANGED <<sq, hashes, axis, json>>

\* c := newCoordFromPubKey(&key.PublicKey)
NewCoordCall(key) ==
    LET r == newCoordFromPubKey(key.PublicKey)
    IN  /\ last' = [op |-> "newCoordFromPubKey", key |-> key, ret |-> r.ret,
                    outcome |-> r.outcome]
        /\ UNCHANGED <<sp, prov, sq, hashes, axis, json>>

\* c := sp.Coordiante()
CoordianteCall ==
    /\ last' = [op |-> "Coordiante", ret |-> Coordiante(sp), outcome |-> "returned"]
    /\ UNCHANGED <<sp, prov, sq, hashes, axis, json>>

\* ok := newCoordFromPubKey(&key.PublicKey).Equal(sp.X, sp.Y)
EqualCall(key) ==
    LET c == newCoordFromPubKey(key.PublicKey)
    IN  /\ last' = IF c.outcome = "panic"
                   THEN [op |-> "Equal", key |-> key, ret |-> FALSE, outcome |-> "panic"]
                   ELSE [op |-> "Equal", key |-> key, ret |-> Equal(c.ret, sp.X, sp.Y),
                         outcome |-> "returned"]
        /\ UNCHANGED <<sp, prov, sq, hashes, axis, json>>

Next ==
    \/ NewEnvelope
    \/ \E m \in Payloads, key \in PrivateKeys, n \in Nonces : SignCall(m, key, n)
    \/ VerifyCall
    \/ \E f \in {"Version", "X", "Y", "Message"} : \E v \in TamperValues(f) : SetField(f, v)
    \/ \E e \in Untrusted : Receive(e)

Spec == Init /\ [][Next]_vars

\* the local-key path: signing, coordinates of local keys, and the axis codec
\* given a key's coordinate bytes directly
KeyBytes ==
    {Bytes(PrivateKey(1).PublicKey.X)} \cup
    UNION {{Bytes(k.PublicKey.X), Bytes(k.PublicKey.Y)} :
              k \in {q \in PrivateKeys : ~Fits(q.PublicKey)}}

NextLocal ==
    \/ NewEnvelope
    \/ \E m \in Payloads, key \in PrivateKeys, n \in Nonces : SignCall(m, key, n)
    \/ \E key \in PrivateKeys : NewCoordCall(key)
    \/ CoordianteCall
    \/ \E key \in PrivateKeys : EqualCall(key)
    \/ NewAxis
    \/ \E data \in KeyBytes : UnmarshalCall(data)

SpecLocal == Init /\ [][NextLocal]_vars

-----------------------------------------------------------------------------
(* The digest of two envelopes *)

\* the four fields the digest is computed from
Signed4(e) == <<e.Version, e.X, e.Y, e.Message>>

\* envelopes whose digests are compared: every version, two X and two Y
\* values, payloads of every length up to MaxMsgLen with two contents, and
\* two pairs of signature scalars
HashPayloads == Payloads \cup {Fill(n, 105) : n \in 1..MaxMsgLen}

HashAxes == {ZeroAxis, LeftPad(PrivateKey(2).PublicKey.X)}

HashEnvs ==
    {[Version |-> v, X |-> x, Y |-> y, Message |-> m, R |-> rs[1], S |-> rs[2]] :
        <<v, x, y, m, rs>> \in
            Versions \X HashAxes \X HashAxes \X HashPayloads
                \X {<<<<>>, <<>>>>, <<<<1>>, <<1, 1>>>>}}

InitHash ==
    /\ sp \in HashEnvs
    /\ sq \in {e \in HashEnvs : e.R = <<>>}
    /\ prov = "other"
    /\ hashes = NoHashes
    /\ axis = ZeroAxis
    /\ last = NoCall
    /\ json = NoJSON

\* one Hash call on e, after the calls recorded in prev: what was written to
\* the hash, the digest, and whether an earlier call's digest was the same
HashRecord(e, prev) ==
    <<[input |-> HashInput(e), digest |-> Hash(e),
       again |-> IF prev = <<>> THEN "first"
                 ELSE IF prev[1].digest = Hash(e) THEN "same" ELSE "differs"]>>

\* digest := sp.Hash()
HashCall ==
    /\ hashes' = [hashes EXCEPT !.a = HashRecord(sp, hashes.a)]
    /\ last' = [op |-> "Hash", on |-> "sp", before |-> sp]
    /\ UNCHANGED <<sp, prov, sq, axis, json>>

\* digest := sq.Hash()
HashCallOther ==
    /\ hashes' = [hashes EXCEPT !.b = HashRecord(sq, hashes.b)]
    /\ last' = [op |-> "Hash", on |-> "sq", before |-> sq]
    /\ UNCHANGED <<sp, prov, sq, axis, json>>

NextHash ==
    \/ HashCall
    \/ HashCallOther
    \/ VerifyCall

SpecHash == InitHash /\ [][NextHash]_vars

-----------------------------------------------------------------------------
(* PubKeyAxis.MarshalJSON and PubKeyAxis.UnmarshalJSON *)

\* JSON texts handed to UnmarshalJSON, and those encoding/json's checkValid accepts
JSONInputs == {"null", "\"AA==\"", "[0,1]", "", "{"}

JSONValid(data) == data \in {"null", "\"AA==\"", "[0,1]"}

\* encoding/json calls a value's own MarshalJSON / UnmarshalJSON when its
\* type has the method; PubKeyAxis and *PubKeyAxis have them
ImplementsMarshaler == TRUE

ImplementsUnmarshaler == TRUE

InitJSON ==
    /\ sp = ZeroSignedProto
    /\ prov = "fresh"
    /\ sq = ZeroSignedProto
    /\ hashes = NoHashes
    /\ axis \in {LeftPad(d) : d \in {b \in AxisInputs : Len(b) <= SizeAxis}}
    /\ last = NoCall
    /\ json = NoJSON

\* bts, err := t.MarshalJSON()
MarshalJSONCall ==
    /\ json.pc = "idle"
    /\ json' = [pc |-> "running", fn |-> "MarshalJSON", depth |-> 1, data |-> "none"]
    /\ UNCHANGED <<sp, prov, sq, hashes, axis, last>>

\* err := t.UnmarshalJSON(data)
UnmarshalJSONCall(data) ==
    /\ json.pc = "idle"
    /\ json' = [pc |-> "running", fn |-> "UnmarshalJSON", depth |-> 1, data |-> data]
    /\ UNCHANGED <<sp, prov, sq, hashes, axis, last>>

\* the innermost MarshalJSON frame runs its body, json.Marshal(t): the
\* encoder finds that t is a Marshaler and calls t.MarshalJSON()
MarshalJSONBody ==
    /\ json.pc = "running"
    /\ json.fn = "MarshalJSON"
    /\ json' = IF ~ImplementsMarshaler THEN [json EXCEPT !.pc = "returned"]
               ELSE IF json.depth < MaxStack THEN [json EXCEPT !.depth = @ + 1]
               ELSE [json EXCEPT !.pc = "stack overflow"]
    /\ UNCHANGED <<sp, prov, sq, hashes, axis, last>>

\* the innermost UnmarshalJSON frame runs its body, json.Unmarshal(data, t):
\* a text that is not valid JSON is refused with an error, which every frame
\* returns; otherwise the decoder finds that t is an Unmarshaler and calls
\* t.UnmarshalJSON(data)
UnmarshalJSONBody ==
    /\ json.pc = "running"
    /\ json.fn = "UnmarshalJSON"
    /\ json' = IF ~JSONValid(json.data) \/ ~ImplementsUnmarshaler
               THEN [json EXCEPT !.pc = "returned"]
               ELSE IF json.depth < MaxStack THEN [json EXCEPT !.depth = @ + 1]
               ELSE [json EXCEPT !.pc = "stack overflow"]
    /\ UNCHANGED <<sp, prov, sq, hashes, axis, last>>

\* the caller goes on after a call that returned
JSONDone ==
    /\ json.pc = "returned"
    /\ json' = NoJSON
    /\ UNCHANGED <<sp, prov, sq, hashes, axis, last>>

NextJSON ==
    \/ MarshalJSONCall
    \/ \E data \in JSONInputs : UnmarshalJSONCall(data)
    \/ MarshalJSONBody
    \/ UnmarshalJSONBody
    \/ JSONDone

\* a goroutine that is running keeps running: every frame's body is executed
SpecJSON == InitJSON /\ [][NextJSON]_vars /\ WF_vars(MarshalJSONBody) /\ WF_vars(UnmarshalJSONBody)

-----------------------------------------------------------------------------
(* The claims *)

\* C1: Verify called right after Sign(m, key) returned, for a key of the
\* configured curve whose X and Y fit in 32 bytes, on any envelope (fresh or
\* used before), returns true.
C1_SignVerifyRoundTrip ==
    (/\ last.op = "Verify"
     /\ last.prev.op = "Sign"
     /\ last.prev.outcome = "returned"
     /\ last.prev.key.PublicKey.Curve = defaultCurve
     /\ Fits(last.prev.key.PublicKey))
        => last.ret = TRUE

C3_SignSetsCoordinate ==
    (last.op = "Sign" /\ last.outcome = "returned") =>
        LET pub == last.key.PublicKey
            c == newCoordFromPubKey(pub)
        IN  /\ sp.X = LeftPad(Bytes(pub.X))
            /\ sp.Y = LeftPad(Bytes(pub.Y))
            /\ c.outcome = "returned"
            /\ Equal(c.ret, sp.X, sp.Y)
            /\ Coordiante(sp) = c.ret

\* C4: Unmarshal(b) with len(b) <= 32 succeeds, and a Marshal right after it
\* returns the 32 bytes of b left-padded with zeros, whatever the axis held
\* before.
C4_AxisRoundTrip ==
    /\ (last.op = "Unmarshal" /\ Len(last.data) <= SizeAxis) => last.err = "nil"
    /\ (last.op = "Marshal" /\ Len(last.decoded) = 1) =>
            /\ last.err = "nil"
            /\ Len(last.out) = SizeAxis
            /\ last.out = LeftPad(last.decoded[1])

\* C5: Unmarshal(b) with len(b) > 32 returns ErrPubKey, does not abort, and
\* leaves the axis bytes as they were.
C5_OverflowRejected ==
    (last.op = "Unmarshal" /\ Len(last.data) > SizeAxis) =>
        /\ last.outcome = "returned"
        /\ last.err = ErrPubKey
        /\ axis = last.before

\* C5's case: data that is too long is handed to an axis that holds a value.
C5_Witness ==
    /\ last.op = "Unmarshal"
    /\ Len(last.data) > SizeAxis
    /\ last.before # ZeroAxis
    /\ last.data[1] # last.before[1]

\* (R, S) is a signature of e's recomputed digest under the key (X, Y) on the
\* configured curve
ValidSignature(e) ==
    \E k \in PrivateKeys, n \in Nonces :
        /\ k.PublicKey.Curve = defaultCurve
        /\ Fits(k.PublicKey)
        /\ e.X = LeftPad(Bytes(k.PublicKey.X))
        /\ e.Y = LeftPad(Bytes(k.PublicKey.Y))
        /\ SetBytes(e.R) = EcdsaSign(k, Hash(e), n).r
        /\ SetBytes(e.S) = EcdsaSign(k, Hash(e), n).s

C7_HashInputInjective ==
    (/\ hashes.a # <<>>
     /\ hashes.b # <<>>
     /\ hashes.a[1].input = hashes.b[1].input)
        => Signed4(sp) = Signed4(sq)

\* C7's case: two envelopes that differ only in versions with the same low
\* byte have both been hashed.
C7_Witness ==
    /\ hashes.a # <<>>
    /\ hashes.b # <<>>
    /\ sp.Version # sq.Version
    /\ sp.Version % 256 = sq.Version % 256
    /\ <<sp.X, sp.Y, sp.Message>> = <<sq.X, sq.Y, sq.Message>>
    /\ hashes.a[1].input # hashes.b[1].input

\* C8: two envelopes that agree on Version, X, Y and Message get the same
\* digest, whatever their R and S; a repeated Hash call returns the same
\* digest; Hash and Verify leave the envelope as it was.
C8_DigestDeterministic ==
    /\ (/\ hashes.a # <<>>
        /\ hashes.b # <<>>
        /\ Signed4(sp) = Signed4(sq))
           => hashes.a[1].digest = hashes.b[1].digest
    /\ \A h \in {hashes.a, hashes.b} : h # <<>> => h[1].again # "differs"
    /\ last.op = "Verify" => sp = last.before
    /\ last.op = "Hash" => last.before = IF last.on = "sp" THEN sp ELSE sq

\* C8's case: two envelopes with the same four fields and different R have
\* both been hashed, one of them twice, and Verify has run.
C8_Witness ==
    /\ hashes.a # <<>>
    /\ hashes.b # <<>>
    /\ Signed4(sp) = Signed4(sq)
    /\ sp.R # sq.R
    /\ hashes.a[1].again = "same"
    /\ last.op = "Verify"

C10_JSONTerminates == (json.pc = "running") ~> (json.pc = "returned")

====
